---- MODULE Spec2Model ----
(***************************************************************************)
(* SkyMail campaign dispatch engine: the periodic scheduler                *)
(* (app/workers/campaign_scheduler.py), the per-batch sender               *)
(* (app/workers/email_batch.py) and the delivery log                       *)
(* (app/modules/campaign/send_log.py), with the Celery task queue and the  *)
(* SES provider as their environment.                                      *)
(***************************************************************************)
EXTENDS Integers, Sequences, FiniteSets, Bags, TLC

\* ------------------------------------------------------------------ bounds
MaxBatch == 2        \* longest recipient list handed to one batch
MaxWorkers == 2      \* worker processes pulling from the email_batches queue
MaxFaults == 1       \* environment faults while executions overlap: provider errors, store failures, kills
MaxTime == 2         \* last instant of the store clock
MaxRuns == 2         \* firings of the periodic scheduler
MaxUnits == 2        \* worker processes pulling from the campaigns queue
MaxSegs == 2         \* pieces (characters, placeholders) of the longest template body
MaxConsts == 2       \* entries of the largest constants_values of a campaign

AllEmails == <<"a@x.io", "b@x.io", "c@x.io", "d@x.io">>
Emails == {AllEmails[k] : k \in 1..MaxBatch}
Workers == 1..MaxWorkers
Campaigns == {"c1", "c2"}
Units == 1..MaxUnits
Times == 0..MaxTime

Null == "null"

\* ------------------------------------------------------- program constants
max_retries == 5
default_retry_delay == 30
task_retry_countdown == 60
sched_max_retries == 3
sched_retry_countdown == 60

VARIABLES
    campaigns,   \* Campaign rows: id -> [status, scheduled_for, sent_at]
    now,         \* the store's clock, func.now()
    sched,       \* the running enqueue_due_campaigns call
    sched_queue, \* scheduled queue: bag of re-submitted scheduler runs
    campaign_queue, \* campaigns queue: bag of campaign ids to dispatch
    units,       \* per worker process: the running dispatch of one campaign
    expected,    \* campaign id -> recipients its dispatch fanned out
    dispatched,  \* campaign id -> dispatches that claimed it / found it claimed
    log,         \* committed campaign_send_logs rows, row id = position
    accepted,    \* provider side: <<campaign, email>> -> sends accepted
    queue,       \* email_batches queue: bag of pending task messages
    workers,     \* per worker process: the running send_campaign_batch call
    budget,      \* environment events still allowed
    missing,     \* which prerequisite of the batch is absent ("none" if all present)
    render       \* the rendering of one message: template, context, texts so far

schedVars == <<now, sched, sched_queue, campaign_queue, units, expected, dispatched>>
batchVars == <<log, accepted, queue, workers, budget, missing>>
vars == <<campaigns, schedVars, batchVars, render>>

\* ------------------------------------------------------------ delivery log
LogStatuses == {"pending", "sending", "sent", "failed", "bounced", "complained"}

\* mutant: the row of a successful send is built without its sent_at
SentRowNoTime(c, e, mid) ==
    [campaign_id |-> c, subscriber_email |-> e, ses_message_id |-> mid,
     status |-> "sent", error_message |-> Null, sent_at |-> FALSE]

\* CampaignSendLog(...) as the sender constructs it on success
SentRow(c, e, mid) ==
    [campaign_id |-> c, subscriber_email |-> e, ses_message_id |-> mid,
     status |-> "sent", error_message |-> Null, sent_at |-> TRUE]

\* mutant: the failure is recorded for the first recipient of the batch
FailedRowFirst(c, e, err) ==
    [campaign_id |-> c, subscriber_email |-> "a@x.io", ses_message_id |-> 0,
     status |-> "failed", error_message |-> err, sent_at |-> FALSE]

\* CampaignSendLog(...) as the sender constructs it on an error
FailedRow(c, e, err) ==
    [campaign_id |-> c, subscriber_email |-> e, ses_message_id |-> 0,
     status |-> "failed", error_message |-> err, sent_at |-> FALSE]

\* select(CampaignSendLog).where(campaign_id == c, subscriber_email == e)
RowsOf(lg, c, e) ==
    {k \in DOMAIN lg : lg[k].campaign_id = c /\ lg[k].subscriber_email = e}

NoLog == [id |-> 0, row |-> FailedRow("none", "none", Null)]

\* one pending unit of work of the session: an INSERT (db.add) or an UPDATE
\* of the columns that differ from the row as it was loaded (db.merge)
AddOp(r) == [kind |-> "add", id |-> 0, base |-> r, row |-> r]
MergeOp(ex, r) == [kind |-> "merge", id |-> ex.id, base |-> ex.row, row |-> r]

ApplyOp(lg, op) ==
    IF op.kind = "add"
    THEN Append(lg, op.row)
    ELSE [lg EXCEPT ![op.id] =
            [f \in DOMAIN op.row |->
                IF op.row[f] # op.base[f] THEN op.row[f] ELSE @[f]]]

\* mutant: the commit persists nothing
ApplyNone(lg, ops) == lg

RECURSIVE ApplyAll(_, _)
\* db.commit(): flush every pending unit of work, in order, atomically
ApplyAll(lg, ops) ==
    IF ops = <<>> THEN lg ELSE ApplyAll(ApplyOp(lg, Head(ops)), Tail(ops))

\* ---------------------------------------------------------------- renderer
\* texts are sequences of characters
Keys == {"a", "b"}            \* names a render context can hold
Names == Keys \cup {"n"}      \* names a template can mention

\* f"{{{{{key}}}}}": the placeholder of a key
Placeholder(key) == <<"{", "{", key, "}", "}">>

\* str(value): a text stays as it is, None reads "None"
Str(v) == IF v.kind = "none" THEN <<"N", "o", "n", "e">> ELSE v.s

\* a column or a context entry: None, or a text
None == [kind |-> "none", s |-> <<>>]
Text(x) == [kind |-> "str", s |-> x]

\* values a context can hold
Values == {None} \cup {Text(x) : x \in {<<>>, <<"v">>, Placeholder("b")}}

RECURSIVE Replace(_, _, _)
\* s.replace(old, new): every occurrence of old, found from the left and
\* not overlapping the one before, becomes new
Replace(s, old, new) ==
    IF Len(s) < Len(old) THEN s
    ELSE IF SubSeq(s, 1, Len(old)) = old
         THEN new \o Replace(SubSeq(s, Len(old) + 1, Len(s)), old, new)
         ELSE <<Head(s)>> \o Replace(Tail(s), old, new)

\* `template_text if template_text else ""`
TextOrEmpty(x) == IF x.kind = "none" THEN <<>> ELSE x.s

\* what the context of one recipient is built from
NoInput == [company_name |-> None, website_url |-> None, email |-> <<>>,
            subscriber |-> [found |-> FALSE, subscriber_name |-> None],
            template_asset_urls |-> <<>>,
            constants_values |-> [kind |-> "none", items |-> <<>>]]

RenderIdle == [pc |-> "idle", input |-> NoInput, ctx |-> <<>>, k |-> 0,
               tpl |-> [subject |-> <<>>, html |-> <<>>, text |-> None],
               subject |-> <<>>, html |-> <<>>, text |-> <<>>]

\* entry of the rendering: the three texts start as the template's
RenderStart(tpl, ctx) ==
    [pc |-> "loop", input |-> NoInput, ctx |-> ctx, k |-> 1, tpl |-> tpl,
     subject |-> tpl.subject, html |-> tpl.html, text |-> TextOrEmpty(tpl.text)]

\* x or "": a None or an empty text reads as the empty text
OrEmpty(x) == IF x.kind = "none" \/ x.s = <<>> THEN Text(<<>>) ELSE x

RECURSIVE LocalPart(_)
\* email.split("@")[0]: the text before the first "@", the whole text if none
LocalPart(e) ==
    IF e = <<>> \/ Head(e) = "@" THEN <<>> ELSE <<Head(e)>> \o LocalPart(Tail(e))

\* the system variables of the dict literal, in the order they are written
SystemValues(in) ==
    << [key |-> "company_name", value |-> in.company_name],
       [key |-> "website_url", value |-> OrEmpty(in.website_url)],
       [key |-> "subscriber_email", value |-> Text(in.email)],
       [key |-> "subscriber_username",
        value |-> IF in.subscriber.found THEN in.subscriber.subscriber_name
                  ELSE Text(LocalPart(in.email))],
       [key |-> "template_asset", value |-> Text(in.template_asset_urls)] >>

\* mutant: a key already in the dict keeps its first value
DictSetFirst(dict, kv) ==
    IF \E j \in DOMAIN dict : dict[j].key = kv.key THEN dict ELSE Append(dict, kv)

\* one entry written into a dict: a key already there keeps its position
\* and takes the new value, a new key goes to the end
DictSet(dict, kv) ==
    IF \E j \in DOMAIN dict : dict[j].key = kv.key
    THEN [j \in DOMAIN dict |-> IF dict[j].key = kv.key THEN kv ELSE dict[j]]
    ELSE Append(dict, kv)

RECURSIVE DictUpdate(_, _)
\* {..., **items}
DictUpdate(dict, items) ==
    IF items = <<>> THEN dict
    ELSE DictUpdate(DictSet(dict, Head(items)), Tail(items))

\* render_context = {system variables, **(campaign.constants_values or {})}
BuildContext(in) ==
    DictUpdate(SystemValues(in),
               IF in.constants_values.kind = "none" THEN <<>>
               ELSE in.constants_values.items)

\* entry of the per-recipient rendering: the context is still to be built
RenderEnter(tpl, in) ==
    [pc |-> "build", input |-> in, ctx |-> <<>>, k |-> 0, tpl |-> tpl,
     subject |-> tpl.subject, html |-> tpl.html, text |-> TextOrEmpty(tpl.text)]

\* the render context of the recipient is built
BuildStep ==
    /\ render.pc = "build"
    /\ render' = [render EXCEPT !.pc = "loop", !.ctx = BuildContext(render.input), !.k = 1]
    /\ UNCHANGED <<campaigns, schedVars, batchVars>>

\* one turn of `for key, value in render_context.items()`, or its end
RenderStep ==
    /\ render.pc = "loop"
    /\ render' =
        IF render.k > Len(render.ctx)
        THEN [render EXCEPT !.pc = "done"]
        ELSE LET placeholder == Placeholder(render.ctx[render.k].key)
                 value == Str(render.ctx[render.k].value)
             IN [render EXCEPT !.subject = Replace(@, placeholder, value),
                               !.html = Replace(@, placeholder, value),
                               !.text = Replace(@, placeholder, value),
                               !.k = @ + 1]
    /\ UNCHANGED <<campaigns, schedVars, batchVars>>

\* ------------------------------------------------------------- task queue
Msg(c, es, r, cd) == [campaign_id |-> c, emails |-> es, retries |-> r, countdown |-> cd]

Enqueue(q, m) == q (+) SetToBag({m})
Dequeue(q, m) == q (-) SetToBag({m})

Idle == [pc |-> "idle", msg |-> Msg("none", <<>>, 0, 0), i |-> 0,
         bound |-> FALSE, existing |-> NoLog, pending |-> <<>>,
         sent_count |-> 0, failed_count |-> 0, calls |-> <<>>,
         throttled |-> FALSE, reason |-> Null, soft |-> FALSE,
         session |-> "none"]

\* mutant: the session is left as it is
CloseSessionLeak(r) == r

\* `finally: db.close()`
CloseSession(r) == [r EXCEPT !.session = "closed"]

Running == {"fetch", "lookup", "send", "commit"}

\* the call has ended: its locals are gone, what is left is how it ended
\* and, for a normal return, the counts of the result
Ended(wk, how) ==
    LET r == [Idle EXCEPT !.pc = how, !.msg = wk.msg,
                !.sent_count = IF how = "returned" THEN wk.sent_count ELSE 0,
                !.failed_count = IF how = "returned" THEN wk.failed_count ELSE 0,
                !.session = wk.session]
    IN IF how = "killed" THEN r ELSE CloseSession(r)

\* ses_client.send_email(...)["MessageId"]: a fresh id for every accepted send
RECURSIVE SumAccepted(_, _)
SumAccepted(acc, S) ==
    IF S = {} THEN 0
    ELSE LET x == CHOOSE y \in S : TRUE IN acc[x] + SumAccepted(acc, S \ {x})
NextMessageId(acc) == SumAccepted(acc, DOMAIN acc) + 1

\* ------------------------------------------------------------ batch sender
\* a worker takes a message off email_batches and enters send_campaign_batch
Start(w) ==
    /\ workers[w].pc \notin Running
    /\ workers[w].pc # "killed"
    /\ \E m \in BagToSet(queue) :
        /\ queue' = Dequeue(queue, m)
        /\ workers' = [workers EXCEPT ![w] =
                [Idle EXCEPT !.pc = "fetch", !.msg = m, !.session = "open"]]
    /\ UNCHANGED <<render, campaigns, schedVars, log, accepted, budget, missing>>

\* the "reason" of the error result, by the first prerequisite found absent
ErrorReason(what) ==
    CASE what = "campaign" -> "campaign_not_found"
      [] what = "template" -> "template_not_found"
      [] what = "company" -> "company_not_found"
      [] what = "sender" -> "sender_email_not_configured"

\* mutant: a missing prerequisite raises and the task ends as failed
FatalReturnRaise(wk, what) == Ended(wk, "failed")

\* return {"status": "error", "reason": ...} before the recipient loop
FatalReturn(wk, what) == [Ended(wk, "error") EXCEPT !.reason = ErrorReason(what)]

\* campaign, template, company, assets and sender address, loaded once
Fetch(w) ==
    /\ workers[w].pc = "fetch"
    /\ LET wk == workers[w]
       IN workers' = [workers EXCEPT ![w] =
            IF missing # "none"
            THEN FatalReturn(wk, missing)
            ELSE IF Len(wk.msg.emails) = 0
                 THEN [wk EXCEPT !.pc = "commit"]
                 ELSE [wk EXCEPT !.pc = "lookup", !.i = 1]]
    /\ UNCHANGED <<render, campaigns, schedVars, log, accepted, queue, budget, missing>>

\* next recipient of the loop, or the commit after the last one
Advance(wk) ==
    IF wk.i < Len(wk.msg.emails)
    THEN [wk EXCEPT !.pc = "lookup", !.i = @ + 1]
    ELSE [wk EXCEPT !.pc = "commit"]

\* mutant: the exception of one recipient ends the loop
UnexpectedBranchAbort(wk, err) ==
    LET e == wk.msg.emails[wk.i]
    IN [wk EXCEPT
          !.pending = Append(@, AddOp(FailedRow(wk.msg.campaign_id, e, err))),
          !.failed_count = @ + 1,
          !.pc = "commit"]

\* the `except Exception` branch of the recipient loop
UnexpectedBranch(wk, err) ==
    LET e == wk.msg.emails[wk.i]
    IN Advance([wk EXCEPT
          !.pending = Append(@, AddOp(FailedRow(wk.msg.campaign_id, e, err))),
          !.failed_count = @ + 1])

\* mutant: the short-circuit never fires
AlreadySentNever(row) == FALSE

\* `existing_log and existing_log.status == "sent"`: the short-circuit test
AlreadySent(row) == row.status = "sent"

\* the idempotency lookup at the head of the recipient loop
Lookup(w) ==
    /\ workers[w].pc = "lookup"
    /\ LET wk == workers[w]
           e == wk.msg.emails[wk.i]
           rows == RowsOf(log, wk.msg.campaign_id, e)
       IN workers' = [workers EXCEPT ![w] =
            IF Cardinality(rows) > 1
            THEN UnexpectedBranch(wk, "MultipleResultsFound")
            ELSE IF rows = {}
                 THEN [wk EXCEPT !.pc = "send", !.bound = TRUE, !.existing = NoLog]
                 ELSE LET k == CHOOSE x \in rows : TRUE
                      IN IF AlreadySent(log[k])
                         THEN Advance([wk EXCEPT !.bound = TRUE,
                                          !.existing = [id |-> k, row |-> log[k]],
                                          !.sent_count = @ + 1])
                         ELSE [wk EXCEPT !.pc = "send", !.bound = TRUE,
                                  !.existing = [id |-> k, row |-> log[k]]]]
    /\ UNCHANGED <<render, campaigns, schedVars, log, accepted, queue, budget, missing>>

\* the result of one ses_client.send_email call, as the loop distinguishes it
\* error codes the provider returns for a sender identity that is not set up
ConfigurationErrorCodes == {"MailFromDomainNotVerifiedException"}
ClientErrorCodes ==
    {"MessageRejected", "Throttling", "ServiceUnavailable"} \cup ConfigurationErrorCodes
Outcomes == {"ok", "Unexpected", "MessageRejected", "Throttling", "ServiceUnavailable"}

\* every outcome but "ok" is a fault of the environment
Cost(o) == IF o = "ok" THEN 0 ELSE 1

\* mutant: a successful send is not counted
SuccessBranchUncounted(wk, mid) ==
    LET e == wk.msg.emails[wk.i]
        op == IF wk.existing.id # 0
              THEN MergeOp(wk.existing,
                           [wk.existing.row EXCEPT !.status = "sent",
                                                   !.ses_message_id = mid,
                                                   !.sent_at = TRUE,
                                                   !.error_message = Null])
              ELSE AddOp(SentRow(wk.msg.campaign_id, e, mid))
    IN Advance([wk EXCEPT !.pending = Append(@, op)])

\* success branch: update the row found by the lookup, or insert a new one
SuccessBranch(wk, mid) ==
    LET e == wk.msg.emails[wk.i]
        op == IF wk.existing.id # 0
              THEN MergeOp(wk.existing,
                           [wk.existing.row EXCEPT !.status = "sent",
                                                   !.ses_message_id = mid,
                                                   !.sent_at = TRUE,
                                                   !.error_message = Null])
              ELSE AddOp(SentRow(wk.msg.campaign_id, e, mid))
    IN Advance([wk EXCEPT !.pending = Append(@, op), !.sent_count = @ + 1])

\* mutant: every provider error code commits and re-queues the batch
ClientErrorBranchAbort(wk, code) ==
    LET e == wk.msg.emails[wk.i]
        op == IF wk.existing.id # 0
              THEN MergeOp(wk.existing,
                           [wk.existing.row EXCEPT !.status = "failed",
                                                   !.error_message = code])
              ELSE AddOp(FailedRow(wk.msg.campaign_id, e, code))
    IN [wk EXCEPT !.pending = Append(@, op), !.failed_count = @ + 1,
                  !.pc = "commit", !.throttled = TRUE]

\* `except ClientError` branch: record the failure, then continue the loop,
\* or commit and re-queue when the code is Throttling
ClientErrorBranch(wk, code) ==
    LET e == wk.msg.emails[wk.i]
        op == IF wk.existing.id # 0
              THEN MergeOp(wk.existing,
                           [wk.existing.row EXCEPT !.status = "failed",
                                                   !.error_message = code])
              ELSE AddOp(FailedRow(wk.msg.campaign_id, e, code))
        rec == [wk EXCEPT !.pending = Append(@, op), !.failed_count = @ + 1]
    IN IF code = "Throttling"
       THEN [rec EXCEPT !.pc = "commit", !.throttled = TRUE]
       ELSE Advance(rec)

\* render the template and call the provider for the current recipient
Send(w, o) ==
    /\ workers[w].pc = "send"
    /\ budget >= Cost(o)
    /\ LET wk == [workers[w] EXCEPT
                    !.calls = Append(@, [email |-> workers[w].msg.emails[workers[w].i],
                                         outcome |-> o])]
           key == <<wk.msg.campaign_id, wk.msg.emails[wk.i]>>
       IN /\ accepted' = IF o = "ok" THEN [accepted EXCEPT ![key] = @ + 1] ELSE accepted
          /\ workers' = [workers EXCEPT ![w] =
                IF o = "ok" THEN SuccessBranch(wk, NextMessageId(accepted))
                ELSE IF o \in ClientErrorCodes THEN ClientErrorBranch(wk, o)
                ELSE UnexpectedBranch(wk, "Exception")]
    /\ budget' = budget - Cost(o)
    /\ UNCHANGED <<render, campaigns, schedVars, log, queue, missing>>

\* mutant: self.retry re-submits without a ceiling
CanRetryAlways(wk) == TRUE

\* self.retry(countdown=cd) / self.retry(exc=exc, countdown=cd): re-submit
\* the task with retries + 1; refuses once max_retries is exceeded
CanRetry(wk) == wk.msg.retries + 1 <= max_retries
RetryMsg(wk, cd) == Msg(wk.msg.campaign_id, wk.msg.emails, wk.msg.retries + 1, cd)

\* outer `except Exception`: raise self.retry(exc=exc, countdown=60)
TaskRetry(q, wk) ==
    IF CanRetry(wk) THEN Enqueue(q, RetryMsg(wk, task_retry_countdown)) ELSE q

\* Throttling: raise self.retry(countdown=30) inside the loop; the Retry it
\* raises is an Exception, so the outer handler runs self.retry once more
ThrottleRetry(q, wk) ==
    IF CanRetry(wk)
    THEN TaskRetry(Enqueue(q, RetryMsg(wk, default_retry_delay)), wk)
    ELSE q

\* mutant: the commit after the loop also marks the campaign sent
CommitMarksSent(w) ==
    /\ workers[w].pc = "commit"
    /\ log' = ApplyAll(log, workers[w].pending)
    /\ IF workers[w].throttled
       THEN /\ queue' = ThrottleRetry(queue, workers[w])
            /\ workers' = [workers EXCEPT ![w] =
                  Ended(workers[w], IF CanRetry(workers[w]) THEN "retry" ELSE "failed")]
            /\ campaigns' = campaigns
       ELSE /\ queue' = queue
            /\ workers' = [workers EXCEPT ![w] = Ended(workers[w], "returned")]
            /\ campaigns' = [campaigns EXCEPT ![workers[w].msg.campaign_id].status = "sent",
                                              ![workers[w].msg.campaign_id].sent_at = TRUE]
    /\ UNCHANGED <<render, schedVars, accepted, budget, missing>>

\* db.commit(), after the loop or in the Throttling branch
Commit(w) ==
    /\ workers[w].pc = "commit"
    /\ log' = ApplyAll(log, workers[w].pending)
    /\ IF workers[w].throttled
       THEN /\ queue' = ThrottleRetry(queue, workers[w])
            /\ workers' = [workers EXCEPT ![w] =
                  Ended(workers[w], IF CanRetry(workers[w]) THEN "retry" ELSE "failed")]
       ELSE /\ queue' = queue
            /\ workers' = [workers EXCEPT ![w] = Ended(workers[w], "returned")]
    /\ UNCHANGED <<render, campaigns, schedVars, accepted, budget, missing>>

\* the store fails while loading the campaign data or at db.commit(): the
\* exception reaches the outer handler, the session is closed uncommitted
StoreFailure(w) ==
    /\ workers[w].pc \in {"fetch", "commit"}
    /\ budget > 0
    /\ budget' = budget - 1
    /\ queue' = TaskRetry(queue, workers[w])
    /\ workers' = [workers EXCEPT ![w] =
          Ended(workers[w], IF CanRetry(workers[w]) THEN "retry" ELSE "failed")]
    /\ UNCHANGED <<render, campaigns, schedVars, log, accepted, missing>>

\* task_soft_time_limit: the runtime raises SoftTimeLimitExceeded, an
\* Exception, at the point the task has reached: inside the recipient loop
\* the `except Exception` of the loop catches it, elsewhere the outer handler
SoftTimeLimit(w) ==
    /\ workers[w].pc \in Running
    /\ ~workers[w].soft
    /\ budget > 0
    /\ budget' = budget - 1
    /\ LET wk == [workers[w] EXCEPT !.soft = TRUE]
       IN IF wk.pc \in {"lookup", "send"}
          THEN /\ workers' = [workers EXCEPT ![w] =
                        UnexpectedBranch(wk, "SoftTimeLimitExceeded")]
               /\ queue' = queue
          ELSE /\ workers' = [workers EXCEPT ![w] =
                        Ended(wk, IF CanRetry(wk) THEN "retry" ELSE "failed")]
               /\ queue' = TaskRetry(queue, wk)
    /\ UNCHANGED <<render, campaigns, schedVars, log, accepted, missing>>

\* task_time_limit: the runtime kills the worker process mid-task
Kill(w) ==
    /\ workers[w].pc \in Running
    /\ budget > 0
    /\ budget' = budget - 1
    /\ workers' = [workers EXCEPT ![w] = Ended(workers[w], "killed")]
    /\ UNCHANGED <<render, campaigns, schedVars, log, accepted, queue, missing>>

\* a killed batch is submitted again (manually or by the next sweep)
Resubmit(w) ==
    /\ workers[w].pc = "killed"
    /\ queue' = Enqueue(queue, Msg(workers[w].msg.campaign_id, workers[w].msg.emails, 0, 0))
    /\ workers' = [workers EXCEPT ![w] = Idle]
    /\ UNCHANGED <<render, campaigns, schedVars, log, accepted, budget, missing>>

\* --------------------------------------------------------------- scheduler
NullTs == -1    \* scheduled_for IS NULL

CampaignStatuses == {"draft", "scheduled", "sending", "sent", "failed"}

SchedIdle == [pc |-> "idle", due |-> {}, todo |-> {}, total_due |-> 0,
              enqueued_count |-> 0, runs |-> 0, retries |-> 0, errors |-> {},
              session |-> "none"]

\* mutant: a run that ended in failure still counts as running
SchedRunningSticky == {"query", "enqueue", "failed"}

\* the positions of a run inside the task body
SchedRunning == {"query", "enqueue"}
UnitIdle == [pc |-> "idle", campaign_id |-> "none"]

\* mutant: NULL compared like a timestamp before every instant
SqlLeNaive(ts, t) == ts <= t

\* Campaign.scheduled_for <= func.now(), evaluated by the store: a NULL
\* operand makes the comparison NULL, which WHERE does not accept
SqlLe(ts, t) == ts # NullTs /\ ts <= t

\* select(Campaign).where(status == "scheduled", scheduled_for <= func.now())
DueCampaigns(cs, t) ==
    {c \in DOMAIN cs : cs[c].status = "scheduled" /\ SqlLe(cs[c].scheduled_for, t)}

\* the store's clock advances
Tick ==
    /\ now < MaxTime
    /\ now' = now + 1
    /\ UNCHANGED <<render, campaigns, sched, sched_queue, campaign_queue, units, expected, dispatched, batchVars>>

\* the beat schedule submits enqueue_due_campaigns and a worker enters it;
\* n caps the number of firings
FireUpTo(n) ==
    /\ sched.pc \notin SchedRunning
    /\ sched.runs < n
    /\ sched' = [SchedIdle EXCEPT !.pc = "query", !.runs = sched.runs + 1,
                                  !.session = "open"]
    /\ UNCHANGED <<render, campaigns, now, sched_queue, campaign_queue, units, expected, dispatched, batchVars>>

Fire == FireUpTo(MaxRuns)

\* a worker takes a re-submitted run off the scheduled queue and enters it
Redeliver ==
    /\ sched.pc \notin SchedRunning
    /\ \E m \in BagToSet(sched_queue) :
        /\ sched_queue' = sched_queue (-) SetToBag({m})
        /\ sched' = [SchedIdle EXCEPT !.pc = "query", !.runs = sched.runs,
                                      !.retries = m.retries, !.session = "open"]
    /\ UNCHANGED <<render, campaigns, now, campaign_queue, units, expected, dispatched, batchVars>>

\* the due-campaign query; returns at once when nothing is due
Query ==
    /\ sched.pc = "query"
    /\ LET due == DueCampaigns(campaigns, now)
       IN sched' = IF due = {}
                   THEN CloseSession([sched EXCEPT !.pc = "idle"])
                   ELSE [sched EXCEPT !.pc = "enqueue", !.due = due, !.todo = due,
                                      !.total_due = Cardinality(due)]
    /\ UNCHANGED <<render, campaigns, now, sched_queue, campaign_queue, units, expected, dispatched, batchVars>>

\* mutant: a run is re-submitted however often it was retried
SchedCanRetryAlways(s) == TRUE

\* max_retries = 3 of the scheduler task, as self.retry tests it
SchedCanRetry(s) == s.retries + 1 <= sched_max_retries

\* the query raises (store unavailable): the outer handler re-submits the
\* run with countdown 60, or raises the error once the retries are used up
QueryFail ==
    /\ sched.pc = "query"
    /\ budget > 0
    /\ budget' = budget - 1
    /\ IF SchedCanRetry(sched)
       THEN /\ sched_queue' = sched_queue (+)
                    SetToBag({[retries |-> sched.retries + 1,
                               countdown |-> sched_retry_countdown]})
            /\ sched' = CloseSession([sched EXCEPT !.pc = "retry"])
       ELSE /\ sched_queue' = sched_queue
            /\ sched' = CloseSession([sched EXCEPT !.pc = "failed"])
    /\ UNCHANGED <<render, campaigns, now, campaign_queue, units, expected, dispatched,
                   log, accepted, queue, workers, missing>>

\* mutant: the campaign is submitted twice
SubmitTwice(q, c) == q (+) SetToBag({c}) (+) SetToBag({c})

\* send_campaign.apply_async(args=[str(campaign.id)], queue="campaigns")
Submit(q, c) == q (+) SetToBag({c})

\* the loop has gone past campaign c
LoopNext(s, c) ==
    IF s.todo = {c}
    THEN CloseSession([s EXCEPT !.todo = {}, !.pc = "idle"])
    ELSE [s EXCEPT !.todo = @ \ {c}]

\* one turn of the loop: the submission succeeds
EnqueueOne(c) ==
    /\ sched.pc = "enqueue"
    /\ c \in sched.todo
    /\ campaign_queue' = Submit(campaign_queue, c)
    /\ sched' = [LoopNext(sched, c) EXCEPT !.enqueued_count = @ + 1]
    /\ UNCHANGED <<render, campaigns, now, sched_queue, units, expected, dispatched, batchVars>>

\* mutant: a failed submission ends the loop
SubmitFailedAbort(s, c) ==
    CloseSession([s EXCEPT !.todo = {}, !.errors = @ \cup {c}, !.pc = "idle"])

\* the inner `except Exception`: log the error, go on with the next campaign
SubmitFailed(s, c) == [LoopNext(s, c) EXCEPT !.errors = @ \cup {c}]

\* one turn of the loop: apply_async raises (broker unavailable)
EnqueueFail(c) ==
    /\ sched.pc = "enqueue"
    /\ c \in sched.todo
    /\ budget > 0
    /\ budget' = budget - 1
    /\ sched' = SubmitFailed(sched, c)
    /\ UNCHANGED <<render, campaigns, now, sched_queue, campaign_queue, units, expected, dispatched,
                   log, accepted, queue, workers, missing>>

\* ------------------------------------------------------------ orchestrator
ChunkSize == 1

\* the active subscribers of the owning company; the company of c2 has none
Subscribers(c) == IF c = "c1" THEN [k \in 1..MaxBatch |-> AllEmails[k]] ELSE <<>>

RECURSIVE Chunks(_)
\* the recipient list cut into chunks of ChunkSize
Chunks(es) ==
    IF Len(es) = 0 THEN {}
    ELSE IF Len(es) <= ChunkSize THEN {es}
    ELSE {SubSeq(es, 1, ChunkSize)} \cup Chunks(SubSeq(es, ChunkSize + 1, Len(es)))

Range(f) == {f[k] : k \in DOMAIN f}

\* a worker takes a campaign id off the campaigns queue
Pickup(u, c) ==
    /\ units[u].pc = "idle"
    /\ BagIn(c, campaign_queue)
    /\ campaign_queue' = campaign_queue (-) SetToBag({c})
    /\ units' = [units EXCEPT ![u] = [pc |-> "claim", campaign_id |-> c]]
    /\ UNCHANGED <<render, campaigns, now, sched, sched_queue, expected, dispatched, batchVars>>

\* mutant: the dispatch proceeds whatever the status
StillScheduledAlways(cs, c) == TRUE

\* the re-check of the claim: the campaign is still `scheduled`
StillScheduled(cs, c) == cs[c].status = "scheduled"

\* the claim: one conditional update from `scheduled` to `sending`; the
\* dispatch that does not win it does nothing more
Claim(u) ==
    /\ units[u].pc = "claim"
    /\ LET c == units[u].campaign_id
       IN IF StillScheduled(campaigns, c)
          THEN /\ campaigns' = [campaigns EXCEPT ![c].status = "sending"]
               /\ units' = [units EXCEPT ![u].pc = "fanout"]
               /\ dispatched' = [dispatched EXCEPT ![c].claimed = @ + 1]
          ELSE /\ campaigns' = campaigns
               /\ units' = [units EXCEPT ![u] = UnitIdle]
               /\ dispatched' = [dispatched EXCEPT ![c].noop = @ + 1]
    /\ UNCHANGED <<render, now, sched, sched_queue, campaign_queue, expected, batchVars>>

\* load the recipients, submit one batch per chunk; no recipient at all
\* marks the campaign sent at once
Fanout(u) ==
    /\ units[u].pc = "fanout"
    /\ LET c == units[u].campaign_id
           es == Subscribers(c)
       IN /\ expected' = [expected EXCEPT ![c] = Range(es)]
          /\ queue' = queue (+) SetToBag({Msg(c, ch, 0, 0) : ch \in Chunks(es)})
          /\ campaigns' = IF Len(es) = 0
                          THEN [campaigns EXCEPT ![c].status = "sent", ![c].sent_at = TRUE]
                          ELSE campaigns
    /\ units' = [units EXCEPT ![u] = UnitIdle]
    /\ UNCHANGED <<render, now, sched, sched_queue, campaign_queue, dispatched, log, accepted, workers, budget, missing>>

TerminalStatuses == {"sent", "failed", "bounced", "complained"}

CampaignRows(lg, c, sts) == {k \in DOMAIN lg : lg[k].campaign_id = c /\ lg[k].status \in sts}

\* the follow-up check: once as many rows as expected recipients are in a
\* terminal state, the campaign is sent if none of them failed, else failed
CompletionCheck(c) ==
    /\ campaigns[c].status = "sending"
    /\ expected[c] # {}
    /\ Cardinality(CampaignRows(log, c, TerminalStatuses)) = Cardinality(expected[c])
    /\ campaigns' = [campaigns EXCEPT
          ![c].status = IF CampaignRows(log, c, {"failed"}) = {} THEN "sent" ELSE "failed",
          ![c].sent_at = TRUE]
    /\ UNCHANGED <<render, schedVars, batchVars>>

\* ---------------------------------------------------------- specifications
Batch(n) == [k \in 1..n |-> AllEmails[k]]

\* no scheduler run, no dispatch in progress
InitSchedIdle ==
    /\ now = 0
    /\ sched = SchedIdle
    /\ sched_queue = EmptyBag
    /\ campaign_queue = EmptyBag
    /\ units = [u \in Units |-> UnitIdle]
    /\ dispatched = [c \in Campaigns |-> [claimed |-> 0, noop |-> 0]]

InitCommon ==
    /\ campaigns = [c \in Campaigns |-> [status |-> "sending", scheduled_for |-> 0, sent_at |-> FALSE]]
    /\ InitSchedIdle
    /\ log = <<>>
    /\ accepted = [p \in Campaigns \X Emails |-> 0]
    /\ workers = [w \in Workers |-> Idle]
    /\ render = RenderIdle

\* one batch of campaign c1 has just been submitted to email_batches
Init ==
    /\ InitCommon
    /\ \E n \in 0..MaxBatch :
        /\ queue = SetToBag({Msg("c1", Batch(n), 0, 0)})
        /\ expected = [c \in Campaigns |-> IF c = "c1" THEN Range(Batch(n)) ELSE {}]
    /\ budget = MaxFaults
    /\ missing \in {"none", "campaign", "template", "company", "sender"}

WorkerStep(w) ==
    \/ Start(w)
    \/ Fetch(w)
    \/ Lookup(w)
    \/ \E o \in Outcomes : Send(w, o)
    \/ Commit(w)
    \/ StoreFailure(w)
    \/ Kill(w)
    \/ Resubmit(w)

\* several worker processes serve email_batches
Next == \E w \in Workers : WorkerStep(w)

Spec == Init /\ [][Next]_vars

\* one worker process: executions of the batch never overlap; one more fault
InitSeq ==
    /\ InitCommon
    /\ \E n \in 0..MaxBatch :
        /\ queue = SetToBag({Msg("c1", Batch(n), 0, 0)})
        /\ expected = [c \in Campaigns |-> IF c = "c1" THEN Range(Batch(n)) ELSE {}]
    /\ budget = MaxFaults + 1
    /\ missing \in {"none", "campaign", "template", "company", "sender"}

NextSeq == WorkerStep(1)

SpecSeq == InitSeq /\ [][NextSeq]_vars

\* a provider that throttles and a store that fails until the retries of the
\* task are used up; one worker process
InitRetry ==
    /\ InitCommon
    /\ \E n \in 1..MaxBatch :
        /\ queue = SetToBag({Msg("c1", Batch(n), 0, 0)})
        /\ expected = [c \in Campaigns |-> IF c = "c1" THEN Range(Batch(n)) ELSE {}]
    /\ budget = max_retries + 1
    /\ missing = "none"

NextRetry ==
    \/ Start(1)
    \/ Fetch(1)
    \/ Lookup(1)
    \/ \E o \in {"ok", "Throttling"} : Send(1, o)
    \/ Commit(1)
    \/ StoreFailure(1)

SpecRetry == InitRetry /\ [][NextRetry]_vars

\* overlapping executions: the provider throttles once, nothing else fails
InitConc ==
    /\ InitCommon
    /\ \E n \in 1..MaxBatch :
        /\ queue = SetToBag({Msg("c1", Batch(n), 0, 0)})
        /\ expected = [c \in Campaigns |-> IF c = "c1" THEN Range(Batch(n)) ELSE {}]
    /\ budget = 1
    /\ missing = "none"

NextConc ==
    \E w \in Workers :
        \/ Start(w)
        \/ Fetch(w)
        \/ Lookup(w)
        \/ \E o \in {"ok", "Throttling"} : Send(w, o)
        \/ Commit(w)

SpecConc == InitConc /\ [][NextConc]_vars

\* the scheduler and the dispatch of due campaigns; batches are submitted
\* to email_batches and stay there
InitSched ==
    /\ campaigns \in [Campaigns -> [status : {"draft", "scheduled"},
                                     scheduled_for : {NullTs} \cup Times,
                                     sent_at : {FALSE}]]
    /\ InitSchedIdle
    /\ expected = [c \in Campaigns |-> {}]
    /\ log = <<>>
    /\ accepted = [p \in Campaigns \X Emails |-> 0]
    /\ workers = [w \in Workers |-> Idle]
    /\ queue = EmptyBag
    /\ budget = 0
    /\ missing = "none"
    /\ render = RenderIdle

NextSched ==
    \/ Tick
    \/ Fire
    \/ Query
    \/ \E c \in Campaigns : EnqueueOne(c)
    \/ \E u \in Units, c \in Campaigns : Pickup(u, c)
    \/ \E u \in Units : Claim(u)
    \/ \E u \in Units : Fanout(u)

SpecSched == InitSched /\ [][NextSched]_vars

\* one worker process and a provider that answers with any of its error codes
NextCodes ==
    \/ Start(1)
    \/ Fetch(1)
    \/ Lookup(1)
    \/ \E o \in {"ok"} \cup ClientErrorCodes : Send(1, o)
    \/ Commit(1)

SpecCodes == InitSeq /\ [][NextCodes]_vars

\* the pieces a template body is written from
Segments == {<<"x">>, <<"{">>} \cup {Placeholder(n) : n \in Names}

RECURSIVE Texts(_)
\* the texts of at most n pieces
Texts(n) ==
    IF n = 0 THEN {<<>>}
    ELSE Texts(n - 1) \cup {s \o t : s \in Texts(n - 1), t \in Segments}

\* dict contents in iteration order: keys are distinct
Contexts ==
    UNION {{c \in [1..n -> [key : Keys, value : Values]] :
                \A i, j \in 1..n : c[i].key = c[j].key => i = j}
           : n \in 0..Cardinality(Keys)}

\* the rendering of one message, for every template and every context
InitRender ==
    /\ campaigns = [c \in Campaigns |-> [status |-> "sending", scheduled_for |-> 0, sent_at |-> FALSE]]
    /\ InitSchedIdle
    /\ log = <<>>
    /\ accepted = [p \in Campaigns \X Emails |-> 0]
    /\ workers = [w \in Workers |-> Idle]
    /\ queue = EmptyBag
    /\ expected = [c \in Campaigns |-> {}]
    /\ budget = 0
    /\ missing = "none"
    /\ \E subject \in Texts(1), html \in Texts(MaxSegs), text \in Texts(1), ctx \in Contexts :
        \E text_content \in {None, Text(text)} :
            render = RenderStart([subject |-> subject, html |-> html, text |-> text_content], ctx)

NextRender == RenderStep

SpecRender == InitRender /\ [][NextRender]_vars

\* one worker process whose execution can run into the soft time limit
NextSoft ==
    \/ Start(1)
    \/ Fetch(1)
    \/ Lookup(1)
    \/ \E o \in {"ok", "MessageRejected"} : Send(1, o)
    \/ Commit(1)
    \/ SoftTimeLimit(1)

SpecSoft == InitSeq /\ [][NextSoft]_vars

\* the scheduler and one batch worker side by side: campaign c1 is being
\* sent and has one batch on the queue, campaign c2 is scheduled
InitSession ==
    /\ \E ts \in {NullTs, 0} :
        campaigns = [c \in Campaigns |->
            IF c = "c1" THEN [status |-> "sending", scheduled_for |-> 0, sent_at |-> FALSE]
            ELSE [status |-> "scheduled", scheduled_for |-> ts, sent_at |-> FALSE]]
    /\ InitSchedIdle
    /\ log = <<>>
    /\ accepted = [p \in Campaigns \X Emails |-> 0]
    /\ workers = [w \in Workers |-> Idle]
    /\ render = RenderIdle
    /\ \E n \in 0..MaxBatch :
        /\ queue = SetToBag({Msg("c1", Batch(n), 0, 0)})
        /\ expected = [c \in Campaigns |-> IF c = "c1" THEN Range(Batch(n)) ELSE {}]
    /\ budget = MaxFaults + 1
    /\ missing \in {"none", "sender"}

NextSession ==
    \/ Fire
    \/ Redeliver
    \/ Query
    \/ QueryFail
    \/ \E c \in Campaigns : EnqueueOne(c)
    \/ \E c \in Campaigns : EnqueueFail(c)
    \/ Start(1)
    \/ Fetch(1)
    \/ Lookup(1)
    \/ \E o \in {"ok", "Throttling"} : Send(1, o)
    \/ Commit(1)
    \/ StoreFailure(1)

SpecSession == InitSession /\ [][NextSession]_vars

\* names a campaign constant can take: two system fields and one of its own
ConstKeys == {"company_name", "subscriber_username", "promo"}

\* campaign.constants_values: NULL, or a dict of at most MaxConsts entries
ConstantsValues ==
    {[kind |-> "none", items |-> <<>>]} \cup
    UNION {{[kind |-> "dict", items |-> c] :
                c \in {x \in [1..n -> [key : ConstKeys, value : {Text(<<"v">>), Text(<<>>)}]] :
                            \A i, j \in 1..n : x[i].key = x[j].key => i = j}}
           : n \in 0..MaxConsts}

\* the data of one recipient of one campaign
RenderInputs ==
    [company_name : {Text(<<"A">>)},
     website_url : {None, Text(<<>>), Text(<<"w">>)},
     email : {<<"j", "@", "x">>, <<"k", "o", "@", "x">>},
     subscriber : {[found |-> FALSE, subscriber_name |-> None],
                   [found |-> TRUE, subscriber_name |-> None],
                   [found |-> TRUE, subscriber_name |-> Text(<<"J">>)]},
     template_asset_urls : {<<>>, <<"u">>},
     constants_values : ConstantsValues]

\* the template of the campaign greets the recipient and names the company
GreetingTemplate ==
    [subject |-> Placeholder("subscriber_username"),
     html |-> Placeholder("company_name") \o <<"x">> \o Placeholder("promo"),
     text |-> None]

\* the building of the context and the rendering, for every recipient data
InitContext ==
    /\ campaigns = [c \in Campaigns |-> [status |-> "sending", scheduled_for |-> 0, sent_at |-> FALSE]]
    /\ InitSchedIdle
    /\ log = <<>>
    /\ accepted = [p \in Campaigns \X Emails |-> 0]
    /\ workers = [w \in Workers |-> Idle]
    /\ queue = EmptyBag
    /\ expected = [c \in Campaigns |-> {}]
    /\ budget = 0
    /\ missing = "none"
    /\ \E in \in RenderInputs : render = RenderEnter(GreetingTemplate, in)

NextContext ==
    \/ BuildStep
    \/ RenderStep

SpecContext == InitContext /\ [][NextContext]_vars

\* overlapping executions of a batch while the provider throttles and
\* rejects
InitOverlap ==
    /\ InitCommon
    /\ \E n \in 1..MaxBatch :
        /\ queue = SetToBag({Msg("c1", Batch(n), 0, 0)})
        /\ expected = [c \in Campaigns |-> IF c = "c1" THEN Range(Batch(n)) ELSE {}]
    /\ budget = MaxFaults + 1
    /\ missing = "none"

NextOverlap ==
    \E w \in Workers :
        \/ Start(w)
        \/ Fetch(w)
        \/ Lookup(w)
        \/ \E o \in {"ok", "Throttling", "MessageRejected"} : Send(w, o)
        \/ Commit(w)

SpecOverlap == InitOverlap /\ [][NextOverlap]_vars

\* the scheduler alone, with a store and a broker that fail up to the
\* retry ceiling of the task and once more
InitSchedFault ==
    /\ campaigns \in [Campaigns -> [status : {"draft", "scheduled"},
                                     scheduled_for : {NullTs} \cup Times,
                                     sent_at : {FALSE}]]
    /\ InitSchedIdle
    /\ expected = [c \in Campaigns |-> {}]
    /\ log = <<>>
    /\ accepted = [p \in Campaigns \X Emails |-> 0]
    /\ workers = [w \in Workers |-> Idle]
    /\ queue = EmptyBag
    /\ budget = sched_max_retries + 1
    /\ missing = "none"
    /\ render = RenderIdle

NextSchedFault ==
    \/ Tick
    \/ Fire
    \/ Redeliver
    \/ Query
    \/ QueryFail
    \/ \E c \in Campaigns : EnqueueOne(c)
    \/ \E c \in Campaigns : EnqueueFail(c)

SpecSchedFault == InitSchedFault /\ [][NextSchedFault]_vars

\* a batch executed again after the provider reported a bounce or a
\* complaint for its first recipient: the row of an accepted send has been
\* moved to one of the two statuses the table allows besides the sender's
InitBounce ==
    /\ campaigns = [c \in Campaigns |-> [status |-> "sending", scheduled_for |-> 0, sent_at |-> FALSE]]
    /\ InitSchedIdle
    /\ \E st \in {"bounced", "complained"} :
        log = <<[SentRow("c1", "a@x.io", 1) EXCEPT !.status = st]>>
    /\ accepted = [p \in Campaigns \X Emails |-> IF p = <<"c1", "a@x.io">> THEN 1 ELSE 0]
    /\ workers = [w \in Workers |-> Idle]
    /\ render = RenderIdle
    /\ \E n \in 1..MaxBatch :
        /\ queue = SetToBag({Msg("c1", Batch(n), 0, 0)})
        /\ expected = [c \in Campaigns |-> IF c = "c1" THEN Range(Batch(n)) ELSE {}]
    /\ budget = MaxFaults + 1
    /\ missing = "none"

NextBounce ==
    \/ Start(1)
    \/ Fetch(1)
    \/ Lookup(1)
    \/ \E o \in {"ok", "MessageRejected", "Throttling"} : Send(1, o)
    \/ Commit(1)

SpecBounce == InitBounce /\ [][NextBounce]_vars

\* the scheduler under fair scheduling: the beat keeps firing (more often
\* than the store and the broker fail), workers take re-submitted runs, and
\* a run that has been entered goes on
LiveRuns == sched_max_retries + 2

NextSchedLive ==
    \/ Tick
    \/ FireUpTo(LiveRuns)
    \/ Redeliver
    \/ Query
    \/ QueryFail
    \/ \E c \in Campaigns : EnqueueOne(c)
    \/ \E c \in Campaigns : EnqueueFail(c)

SpecSchedLive ==
    /\ InitSchedFault
    /\ [][NextSchedLive]_vars
    /\ WF_vars(FireUpTo(LiveRuns))
    /\ WF_vars(Redeliver)
    /\ WF_vars(Query)
    /\ \A c \in Campaigns : WF_vars(EnqueueOne(c))

\* one batch of a campaign in `sending`, one worker process, a provider that
\* may throttle or reject once, and the completion check of the campaign
NextDone ==
    \/ Start(1)
    \/ Fetch(1)
    \/ Lookup(1)
    \/ \E o \in {"ok", "Throttling", "MessageRejected"} : Send(1, o)
    \/ Commit(1)
    \/ \E c \in Campaigns : CompletionCheck(c)

SpecDone == InitConc /\ [][NextDone]_vars

\* ------------------------------------------------------------- properties
\* the dict send_campaign_batch returns after the commit
BatchResult(wk) ==
    [status |-> IF wk.failed_count = 0 THEN "success" ELSE "partial",
     campaign_id |-> wk.msg.campaign_id,
     sent_count |-> wk.sent_count,
     failed_count |-> wk.failed_count,
     total |-> Len(wk.msg.emails)]

Pairs == Campaigns \X Emails

CalledEmails(calls) == {calls[k].email : k \in DOMAIN calls}
HasRow(lg, c, e, st) == \E k \in RowsOf(lg, c, e) : lg[k].status = st

\* the worker takes a step of its own call and is not killed in it
Steps(w) == workers'[w] # workers[w] /\ workers'[w].pc # "killed"

\* the worker performs a provider call with outcome o in this step
Calls(w, o) ==
    /\ workers[w].pc = "send"
    /\ Steps(w)
    /\ workers'[w].calls = Append(workers[w].calls,
            [email |-> workers[w].msg.emails[workers[w].i], outcome |-> o])

\* C1: the provider accepts at most one send per (campaign, recipient) pair,
\* whatever sequence of executions, re-queues, retries and re-submissions
NoDoubleSend == \A p \in Pairs : accepted[p] <= 1

\* C2: when the lookup finds the one row of the recipient in status sent, the
\* step performs no provider call, queues no row write, leaves the log as it
\* is and counts the recipient as sent
IdempotentSkip ==
    [][\A w \in Workers :
        LET wk == workers[w]
            rows == RowsOf(log, wk.msg.campaign_id, wk.msg.emails[wk.i])
        IN (/\ wk.pc = "lookup"
            /\ Steps(w)
            /\ Cardinality(rows) = 1
            /\ \A k \in rows : log[k].status = "sent")
           => /\ workers'[w].pc # "send"
              /\ workers'[w].calls = wk.calls
              /\ workers'[w].pending = wk.pending
              /\ workers'[w].sent_count = wk.sent_count + 1
              /\ workers'[w].failed_count = wk.failed_count
              /\ accepted' = accepted
              /\ log' = log]_vars

\* a call got past a recipient counted as sent without calling the provider
IdempotentSkipWitness ==
    \E w \in Workers :
        /\ workers[w].pc \in {"lookup", "send", "commit"}
        /\ workers[w].sent_count > Len(workers[w].calls)
        /\ workers[w].pending = <<>>

\* C3: at most one row per (campaign_id, subscriber_email) in the delivery log
OneRowPerPair == \A p \in Pairs : Cardinality(RowsOf(log, p[1], p[2])) <= 1

\* C4: when a unit has returned or has used up its retries, each recipient
\* of its list has exactly one row, in status sent or failed
BatchPostcondition ==
    \A w \in Workers :
        workers[w].pc \in {"returned", "failed"}
        => \A j \in DOMAIN workers[w].msg.emails :
            LET rows == RowsOf(log, workers[w].msg.campaign_id, workers[w].msg.emails[j])
            IN /\ Cardinality(rows) = 1
               /\ \A k \in rows : log[k].status \in {"sent", "failed"}

\* C5: a MessageRejected for one recipient is recorded and the loop goes on
\* to the next recipient without re-queueing; when the call returns, every
\* rejected recipient has a failed row carrying the error and every accepted
\* one a sent row, and nothing was put back on the queue
PartialFailureIsolation ==
    [][\A w \in Workers :
        LET wk == workers[w]
            c == wk.msg.campaign_id
        IN /\ Calls(w, "MessageRejected")
                => /\ workers'[w].pc = IF wk.i < Len(wk.msg.emails) THEN "lookup" ELSE "commit"
                   /\ ~workers'[w].throttled
                   /\ workers'[w].failed_count = wk.failed_count + 1
                   /\ queue' = queue
           /\ (wk.pc = "commit" /\ workers'[w].pc = "returned")
                => /\ \A k \in DOMAIN wk.calls :
                        /\ wk.calls[k].outcome = "MessageRejected"
                            => \E r \in RowsOf(log', c, wk.calls[k].email) :
                                    /\ log'[r].status = "failed"
                                    /\ log'[r].error_message = "MessageRejected"
                        /\ wk.calls[k].outcome = "ok"
                            => HasRow(log', c, wk.calls[k].email, "sent")
                   /\ \A j \in DOMAIN wk.msg.emails :
                        \/ wk.msg.emails[j] \in CalledEmails(wk.calls)
                        \/ RowsOf(log, c, wk.msg.emails[j]) # {}
                   /\ queue' = queue]_vars

\* a batch has returned with one recipient rejected and another one sent
PartialFailureWitness ==
    \E w \in Workers :
        /\ workers[w].pc = "returned"
        /\ workers[w].failed_count = 1
        /\ workers[w].sent_count >= 1
        /\ queue = EmptyBag
        /\ \E r1, r2 \in DOMAIN log :
            /\ log[r1].status = "failed" /\ log[r1].error_message = "MessageRejected"
            /\ log[r2].status = "sent"
            /\ log[r1].subscriber_email # log[r2].subscriber_email

\* C6: the Throttling branch commits the rows of the recipients sent so far
\* in this call and then re-queues the batch with the 30 s countdown; no call
\* then goes to the provider for a recipient whose row is committed as sent
ThrottlingRecovery ==
    [][\A w \in Workers :
        LET wk == workers[w]
            c == wk.msg.campaign_id
        IN /\ (wk.pc = "commit" /\ wk.throttled /\ Steps(w) /\ budget' = budget)
                => /\ \A k \in DOMAIN wk.calls :
                        wk.calls[k].outcome = "ok"
                            => HasRow(log', c, wk.calls[k].email, "sent")
                   /\ CanRetry(wk)
                        => CopiesIn(RetryMsg(wk, default_retry_delay), queue')
                            > CopiesIn(RetryMsg(wk, default_retry_delay), queue)
           /\ \A o \in Outcomes :
                Calls(w, o) => ~HasRow(log, c, wk.msg.emails[wk.i], "sent")]_vars

\* the re-entered batch skipped a recipient sent before the throttling and
\* called the provider for the remaining one only
ThrottlingRecoveryWitness ==
    \E w \in Workers :
        /\ workers[w].pc = "commit"
        /\ workers[w].msg.countdown = default_retry_delay
        /\ Len(workers[w].msg.emails) = 2
        /\ workers[w].sent_count = 2
        /\ Len(workers[w].calls) = 1
        /\ HasRow(log, workers[w].msg.campaign_id, workers[w].msg.emails[1], "sent")

\* C7: under every interleaving of overlapping executions of the same batch,
\* each recipient is sent to at most once and has at most one row
ConcurrentSafe ==
    \A p \in Pairs :
        /\ accepted[p] <= 1
        /\ Cardinality(RowsOf(log, p[1], p[2])) <= 1

\* C8: of the dispatches of one campaign, however they interleave, exactly
\* one moves it from scheduled to sending and fans its batches out once; a
\* dispatch that finds it no longer scheduled does nothing
SingleFlight ==
    \A c \in Campaigns :
        /\ dispatched[c].claimed <= 1
        /\ \A m \in BagToSet(queue) : m.campaign_id = c => CopiesIn(m, queue) = 1
        /\ dispatched[c].claimed = 0 => ~(\E m \in BagToSet(queue) : m.campaign_id = c)
        /\ dispatched[c].noop > 0 => dispatched[c].claimed = 1

\* two dispatches of one campaign overlapped: one holds the claim and has
\* not fanned out yet, the other has found the campaign claimed
SingleFlightWitness ==
    \E u \in Units :
        /\ units[u].pc = "fanout"
        /\ dispatched[units[u].campaign_id].claimed = 1
        /\ dispatched[units[u].campaign_id].noop = 1

\* C9: a campaign whose expected recipients all have a terminal row and whose
\* status is terminal is sent exactly when none of its rows is failed
CompletionCorrect ==
    \A c \in Campaigns :
        (/\ campaigns[c].status \in {"sent", "failed"}
         /\ expected[c] # {}
         /\ \A e \in expected[c] :
                \E k \in RowsOf(log, c, e) : log[k].status \in TerminalStatuses)
        => (campaigns[c].status = "sent" <=> CampaignRows(log, c, {"failed"}) = {})

\* C10: the query of a scheduler run selects exactly the campaigns that are
\* scheduled with a non-null scheduled_for at or before the store's time
DueFilter ==
    [][(sched.pc = "query" /\ sched' # sched)
        => \A c \in Campaigns :
            c \in sched'.todo
            <=> /\ campaigns[c].status = "scheduled"
                /\ campaigns[c].scheduled_for \in Times
                /\ campaigns[c].scheduled_for <= now]_vars

\* a run selected a due campaign and left out one that was not scheduled, or
\* was scheduled with a null or later time
DueFilterWitness ==
    /\ sched.pc = "enqueue"
    /\ sched.total_due = 1
    /\ \E c \in sched.todo : campaigns[c].scheduled_for \in 0..now
    /\ \E d \in Campaigns \ sched.todo :
        /\ campaigns[d].status = "scheduled"
        /\ campaigns[d].scheduled_for = NullTs

\* C11: a step of the scheduler run leaves every Campaign row, the delivery
\* log, the provider, the batch queue and the dispatches as they are; a turn
\* of its loop puts exactly one unit, the id of the campaign of that turn, on
\* the campaigns queue, and no other step of the run submits anything
SchedulerNeverSends ==
    [][sched' # sched
        => /\ campaigns' = campaigns
           /\ log' = log
           /\ accepted' = accepted
           /\ queue' = queue
           /\ workers' = workers
           /\ units' = units
           /\ expected' = expected
           /\ IF sched.pc = "enqueue"
              THEN \E c \in sched.todo :
                    /\ sched'.todo = sched.todo \ {c}
                    /\ campaign_queue' = campaign_queue (+) SetToBag({c})
              ELSE campaign_queue' = campaign_queue]_vars

\* a run has ended after submitting one unit for each of two due campaigns,
\* which are still scheduled, and nothing was sent or logged
SchedulerNeverSendsWitness ==
    /\ sched.pc = "idle"
    /\ sched.enqueued_count = 2
    /\ \A c \in sched.due : campaigns[c].status = "scheduled" /\ CopiesIn(c, campaign_queue) = 1
    /\ log = <<>>
    /\ \A p \in Pairs : accepted[p] = 0

\* C12: a turn of the loop whose submission fails goes on to the next due
\* campaign and re-submits nothing; when the run returns, every due campaign
\* whose submission did not fail is on the campaigns queue and
\* campaigns_enqueued counts exactly these, at most total_due
SubmissionIsolation ==
    [][(sched.pc = "enqueue" /\ sched' # sched)
        => /\ \E c \in sched.todo :
                /\ sched'.todo = sched.todo \ {c}
                /\ \/ /\ campaign_queue' = campaign_queue (+) SetToBag({c})
                      /\ sched'.enqueued_count = sched.enqueued_count + 1
                      /\ sched'.errors = sched.errors
                   \/ /\ campaign_queue' = campaign_queue
                      /\ sched'.enqueued_count = sched.enqueued_count
                      /\ sched'.errors = sched.errors \cup {c}
           /\ sched_queue' = sched_queue
           /\ sched'.pc = IF sched'.todo = {} THEN "idle" ELSE "enqueue"
           /\ sched'.pc = "idle"
                => /\ \A c \in sched'.due \ sched'.errors : BagIn(c, campaign_queue')
                   /\ sched'.enqueued_count = Cardinality(sched'.due \ sched'.errors)
                   /\ sched'.enqueued_count <= sched'.total_due
                   /\ sched'.total_due = Cardinality(sched'.due)]_vars

\* a run of two due campaigns has returned: the first submission failed, the
\* second campaign was submitted, nothing was re-submitted
SubmissionIsolationWitness ==
    /\ sched.pc = "idle"
    /\ sched.total_due = 2
    /\ sched.enqueued_count = 1
    /\ Cardinality(sched.errors) = 1
    /\ sched_queue = EmptyBag
    /\ \E c \in sched.due \ sched.errors : BagIn(c, campaign_queue)
    /\ \A c \in sched.errors : ~BagIn(c, campaign_queue)

SenderLeavesCampaign ==
    [][workers' # workers
        => \A c \in Campaigns :
            /\ campaigns'[c].status = campaigns[c].status
            /\ campaigns'[c].sent_at = campaigns[c].sent_at
            /\ campaigns'[c] = campaigns[c]]_vars

\* a batch has returned after sending to its recipients and committing
\* their rows, and its campaign is still `sending` with no sent_at
SenderLeavesCampaignWitness ==
    \E w \in Workers :
        /\ workers[w].pc = "returned"
        /\ workers[w].sent_count = MaxBatch
        /\ \A j \in DOMAIN workers[w].msg.emails :
            HasRow(log, workers[w].msg.campaign_id, workers[w].msg.emails[j], "sent")
        /\ campaigns[workers[w].msg.campaign_id].status = "sending"
        /\ ~campaigns[workers[w].msg.campaign_id].sent_at

\* C15: when the campaign, its template, its company or the sender address
\* is missing, the step that loads them ends the call with the error result
\* naming what is missing: nothing is put on the queue, no call goes to the
\* provider and no row is written
FatalToUnit ==
    [][\A w \in Workers :
        (/\ workers[w].pc = "fetch"
         /\ missing # "none"
         /\ Steps(w)
         /\ budget' = budget)
        => /\ workers'[w].pc = "error"
           /\ workers'[w].reason =
                (CASE missing = "campaign" -> "campaign_not_found"
                   [] missing = "template" -> "template_not_found"
                   [] missing = "company" -> "company_not_found"
                   [] missing = "sender" -> "sender_email_not_configured")
           /\ workers'[w].calls = <<>>
           /\ workers'[w].pending = <<>>
           /\ queue' = queue
           /\ log' = log
           /\ accepted' = accepted]_vars

\* a batch of two recipients has ended with template_not_found: the queue
\* is empty, the log is empty and the provider has seen nothing
FatalToUnitWitness ==
    \E w \in Workers :
        /\ workers[w].pc = "error"
        /\ workers[w].reason = "template_not_found"
        /\ Len(workers[w].msg.emails) = MaxBatch
        /\ queue = EmptyBag
        /\ log = <<>>
        /\ \A p \in Pairs : accepted[p] = 0

\* C16: an execution that is an automatic retry of the batch performs no
\* provider call for a recipient whose committed row is failed with the
\* provider's rejection of the address
RejectedNeverRetried ==
    [][\A w \in Workers : \A o \in Outcomes :
        (Calls(w, o) /\ workers[w].msg.retries > 0)
        => ~\E k \in RowsOf(log, workers[w].msg.campaign_id,
                            workers[w].msg.emails[workers[w].i]) :
                /\ log[k].status = "failed"
                /\ log[k].error_message = "MessageRejected"]_vars

\* C17: an execution in which a provider call ended with an unknown error
\* does not finish with a normal return; it ends re-submitted to the queue
UnknownErrorRetried ==
    [][\A w \in Workers :
        (/\ workers[w].pc \in Running
         /\ \E k \in DOMAIN workers[w].calls :
                workers[w].calls[k].outcome \in {"ServiceUnavailable", "Unexpected"})
        => /\ workers'[w].pc # "returned"
           /\ workers'[w].pc \in {"retry", "failed"}
                => queue' # queue \/ ~CanRetry(workers[w])]_vars

\* C18: after a provider call of an execution has ended with a configuration
\* error, the execution performs no further provider call
ConfigurationErrorStops ==
    [][\A w \in Workers : \A o \in {"ok"} \cup ClientErrorCodes :
        Calls(w, o)
        => \A k \in DOMAIN workers[w].calls :
                workers[w].calls[k].outcome \notin ConfigurationErrorCodes]_vars

\* C20: no message of the batch carries more than 5 retries; an execution
\* that ends on a transient error is put back on the queue with one retry
\* more while it has fewer than 5, and with 5 it ends as failed with nothing
\* put back, so along a chain of retries the count grows up to the ceiling
BoundedRetries ==
    [][/\ \A m \in BagToSet(queue') : m.retries <= 5
       /\ \A w \in Workers :
            (workers[w].pc \in Running /\ workers'[w].pc \in {"retry", "failed"})
            => /\ workers[w].msg.retries <= 5
               /\ IF workers[w].msg.retries < 5
                  THEN /\ workers'[w].pc = "retry"
                       /\ \A m \in BagToSet(queue') :
                            CopiesIn(m, queue') > CopiesIn(m, queue)
                                => m.retries = workers[w].msg.retries + 1
                       /\ \E m \in BagToSet(queue') :
                            CopiesIn(m, queue') > CopiesIn(m, queue)
                  ELSE /\ workers'[w].pc = "failed"
                       /\ queue' = queue]_vars

\* the fifth retry of a batch has hit a transient error too: the task has
\* ended as failed and its chain has left nothing on the queue
BoundedRetriesWitness ==
    \E w \in Workers :
        /\ workers[w].pc = "failed"
        /\ workers[w].msg.retries = 5
        /\ queue = EmptyBag

RECURSIVE Substitute(_, _)
\* the text s with each occurrence of the placeholder of a key of the
\* context replaced by the key's value, and everything else as it is
Substitute(s, ctx) ==
    IF s = <<>> THEN <<>>
    ELSE LET hit == {j \in DOMAIN ctx :
                        /\ Len(s) >= Len(Placeholder(ctx[j].key))
                        /\ SubSeq(s, 1, Len(Placeholder(ctx[j].key))) = Placeholder(ctx[j].key)}
         IN IF hit # {}
            THEN LET j == CHOOSE x \in hit : TRUE
                 IN Str(ctx[j].value)
                    \o Substitute(SubSeq(s, Len(Placeholder(ctx[j].key)) + 1, Len(s)), ctx)
            ELSE <<Head(s)>> \o Substitute(Tail(s), ctx)

\* C19: for every template and context, each of the rendered subject, HTML
\* body and text body is its template text with every {{key}} of a context
\* key replaced by the key's value and every other {{name}} left as it is
RenderIsSubstitution ==
    render.pc = "done"
    => /\ render.subject = Substitute(render.tpl.subject, render.ctx)
       /\ render.html = Substitute(render.tpl.html, render.ctx)
       /\ render.text = Substitute(TextOrEmpty(render.tpl.text), render.ctx)

\* C21: once the soft time limit has fired in an execution, the execution
\* performs no further provider call, and it ends by committing the rows it
\* has written so far
SoftLimitExit ==
    [][\A w \in Workers :
        /\ \A o \in Outcomes : Calls(w, o) => ~workers[w].soft
        /\ (workers[w].pc \in Running /\ workers[w].soft /\ workers'[w].pc \notin Running)
            => /\ workers'[w].pc = "returned"
               /\ log' = ApplyAll(log, workers[w].pending)]_vars

\* C22: a task body that is running holds an open session of its own, and
\* a task body that has ended, by a normal return, an error return, a
\* throttling re-queue or a retry raised by the outer handler, has closed it
SessionScoped ==
    /\ \A w \in Workers :
        /\ workers[w].pc \in Running => workers[w].session = "open"
        /\ workers[w].pc \in {"returned", "error", "retry", "failed"}
            => workers[w].session = "closed"
        /\ workers[w].pc = "idle" => workers[w].session = "none"
    /\ sched.pc \in SchedRunning => sched.session = "open"
    /\ sched.pc \in {"retry", "failed"} => sched.session = "closed"
    /\ sched.pc = "idle" => sched.session = IF sched.runs = 0 THEN "none" ELSE "closed"

\* a batch has ended re-queued after a throttling and a scheduler run has
\* ended re-submitted after a failed query, both with their session closed
SessionScopedWitness ==
    /\ \E w \in Workers :
        /\ workers[w].pc = "retry"
        /\ workers[w].msg.countdown = 0
        /\ workers[w].session = "closed"
        /\ \E k \in DOMAIN log : log[k].error_message = "Throttling"
    /\ sched.pc = "retry"
    /\ sched.session = "closed"

\* C23: a committed row in status sent or failed keeps its status through
\* every later step of the batch sender
TerminalRowsStay ==
    [][\A k \in DOMAIN log :
        log[k].status \in {"sent", "failed"}
            => /\ k \in DOMAIN log'
               /\ log'[k].status = log[k].status]_vars

\* the value a context holds for a key
CtxValue(ctx, key) == ctx[CHOOSE j \in DOMAIN ctx : ctx[j].key = key].value
CtxKeys(ctx) == {ctx[j].key : j \in DOMAIN ctx}

\* C24: in the context built for a recipient, a system field named by a
\* campaign constant holds the constant's value, every other system field
\* holds its resolved value, and every constant is in the context
ContextPrecedence ==
    render.pc \in {"loop", "done"}
    => LET consts == IF render.input.constants_values.kind = "none" THEN <<>>
                     ELSE render.input.constants_values.items
           sys == SystemValues(render.input)
       IN /\ \A j \in DOMAIN sys :
                CtxValue(render.ctx, sys[j].key) =
                    IF sys[j].key \in CtxKeys(consts)
                    THEN CtxValue(consts, sys[j].key)
                    ELSE sys[j].value
          /\ \A j \in DOMAIN consts :
                CtxValue(render.ctx, consts[j].key) = consts[j].value
          /\ CtxKeys(render.ctx) = CtxKeys(sys) \cup CtxKeys(consts)
          /\ \A i, j \in DOMAIN render.ctx :
                render.ctx[i].key = render.ctx[j].key => i = j

\* a context was built in which a constant has replaced company_name and
\* subscriber_username has kept the name of the subscriber
ContextPrecedenceWitness ==
    /\ render.pc = "done"
    /\ render.input.company_name = Text(<<"A">>)
    /\ CtxValue(render.ctx, "company_name") = Text(<<"v">>)
    /\ CtxValue(render.ctx, "subscriber_username") = Text(<<"J">>)
    /\ render.subject = <<"J">>
    /\ render.html = <<"v", "x">> \o Placeholder("promo")

\* C25: where no constant names subscriber_username, the text rendered for
\* {{subscriber_username}} is the name of the subscriber when the subscriber
\* is found and has one, and the local part of the address otherwise
DisplayNameFallback ==
    (/\ render.pc = "done"
     /\ render.input.constants_values.kind = "none")
    => render.subject =
        IF /\ render.input.subscriber.found
           /\ render.input.subscriber.subscriber_name.kind = "str"
        THEN render.input.subscriber.subscriber_name.s
        ELSE LocalPart(render.input.email)

\* C26: a row of the delivery log carries an error_message only while its
\* status is failed
ErrorOnlyIfFailed ==
    \A k \in DOMAIN log : log[k].error_message # Null => log[k].status = "failed"

KeepsFiring == sched.runs + budget < LiveRuns

\* C28: under fair firing, with a store and a broker that fail finitely
\* often, every campaign that is scheduled and due is eventually submitted
\* to the campaigns queue, also after a run has used up its retries
SchedulerLiveness ==
    \A c \in Campaigns :
        (/\ campaigns[c].status = "scheduled"
         /\ SqlLe(campaigns[c].scheduled_for, now)
         /\ KeepsFiring)
            ~> BagIn(c, campaign_queue)

\* a run has used up its retries while a due campaign is not yet submitted
SchedulerLivenessWitness ==
    /\ sched.pc = "failed"
    /\ KeepsFiring
    /\ \E c \in DueCampaigns(campaigns, now) : ~BagIn(c, campaign_queue)

\* C29: a step of the recipient loop that records a failure queues one
\* write, for the row of the current recipient; in the provider-error branch
\* the lookup result is bound and is the stored row of the current
\* recipient, or none when the recipient has no row
ExistingLogScoped ==
    [][\A w \in Workers :
        LET wk == workers[w]
            n == Len(wk.pending)
        IN (/\ wk.pc \in {"lookup", "send"}
            /\ Steps(w)
            /\ Len(workers'[w].pending) = n + 1
            /\ workers'[w].pending[n + 1].row.status = "failed")
           => LET c == wk.msg.campaign_id
                  e == wk.msg.emails[wk.i]
                  op == workers'[w].pending[n + 1]
              IN /\ op.row.campaign_id = c
                 /\ op.row.subscriber_email = e
                 /\ op.kind = "merge"
                        => /\ op.id \in DOMAIN log
                           /\ log[op.id].campaign_id = c
                           /\ log[op.id].subscriber_email = e
                 /\ (\E o \in ClientErrorCodes : Calls(w, o))
                        => /\ wk.bound
                           /\ IF wk.existing.id = 0
                              THEN RowsOf(log, c, e) = {} /\ op.kind = "add"
                              ELSE /\ RowsOf(log, c, e) = {wk.existing.id}
                                   /\ op.kind = "merge"
                                   /\ op.id = wk.existing.id]_vars

\* a failure was recorded on the existing row of a recipient that is not the
\* first of its batch
ExistingLogScopedWitness ==
    \E w \in Workers : \E j \in DOMAIN workers[w].pending :
        LET op == workers[w].pending[j]
        IN /\ op.kind = "merge"
           /\ op.row.status = "failed"
           /\ op.row.subscriber_email # workers[w].msg.emails[1]

OneRetryPerThrottle ==
    [][\A w \in Workers :
        LET wk == workers[w]
        IN (wk.pc = "commit" /\ wk.throttled /\ Steps(w) /\ budget' = budget
                /\ CanRetry(wk))
            => queue' = Enqueue(queue, RetryMsg(wk, default_retry_delay))]_vars

\* C32: the commit of a throttled execution leaves no failed row for the
\* recipient whose send was throttled, when that recipient had none before
ThrottleWritesNoFailure ==
    [][\A w \in Workers :
        LET wk == workers[w]
            c == wk.msg.campaign_id
        IN (wk.pc = "commit" /\ wk.throttled /\ Steps(w) /\ budget' = budget
                /\ ~HasRow(log, c, wk.msg.emails[wk.i], "failed"))
            => ~HasRow(log', c, wk.msg.emails[wk.i], "failed")]_vars

\* C33: no provider call goes out for a recipient whose row is bounced or
\* complained, and such a row keeps its status
BouncedRowsRespected ==
    [][/\ \A w \in Workers : \A o \in Outcomes :
            Calls(w, o) =>
                /\ ~HasRow(log, workers[w].msg.campaign_id,
                           workers[w].msg.emails[workers[w].i], "bounced")
                /\ ~HasRow(log, workers[w].msg.campaign_id,
                           workers[w].msg.emails[workers[w].i], "complained")
       /\ \A k \in DOMAIN log :
            log[k].status \in {"bounced", "complained"}
                => log'[k].status = log[k].status]_vars

\* C34: the result of an execution that returned after its commit accounts
\* for every recipient of the batch once, as sent or as failed, and reads
\* success exactly when none failed, partial otherwise
ResultAccounting ==
    \A w \in Workers :
        workers[w].pc = "returned"
            => LET r == BatchResult(workers[w])
               IN /\ r.sent_count + r.failed_count = Len(workers[w].msg.emails)
                  /\ r.total = Len(workers[w].msg.emails)
                  /\ r.status = "success" <=> r.failed_count = 0
                  /\ r.status # "success" => r.status = "partial"

\* the re-queued execution of a throttled batch has returned a partial
\* result: its first recipient was already sent and is counted as sent, its
\* second recipient failed again
ResultAccountingWitness ==
    /\ Len(log) = 3
    /\ log[1].status = "sent" /\ log[1].subscriber_email = "a@x.io"
    /\ \E w \in Workers :
        /\ workers[w].pc = "returned"
        /\ workers[w].msg.retries = 1
        /\ workers[w].msg.countdown = default_retry_delay
        /\ BatchResult(workers[w]).status = "partial"
        /\ BatchResult(workers[w]).sent_count = 1
        /\ BatchResult(workers[w]).failed_count = 1

\* the replace loop over a whole context, in the context's order
RECURSIVE RenderAll(_, _)
RenderAll(s, ctx) ==
    IF ctx = <<>> THEN s
    ELSE RenderAll(Replace(s, Placeholder(Head(ctx).key), Str(Head(ctx).value)),
                   Tail(ctx))

\* the same entries iterated in the opposite order
Reverse(ctx) == [j \in DOMAIN ctx |-> ctx[Len(ctx) + 1 - j]]

\* C35: the rendered texts are those of one simultaneous substitution, and
\* iterating the context in the opposite order renders the same texts
SequentialIsSimultaneous ==
    render.pc = "done"
    => /\ render.html = Substitute(render.tpl.html, render.ctx)
       /\ render.html = RenderAll(render.tpl.html, Reverse(render.ctx))
       /\ render.subject = RenderAll(render.tpl.subject, Reverse(render.ctx))
       /\ render.text = RenderAll(TextOrEmpty(render.tpl.text), Reverse(render.ctx))

\* C36: while a campaign is scheduled, at most one dispatch unit of it is
\* outstanding, waiting in the campaigns queue or taken off it and about to
\* claim the campaign
OneUnitOutstanding ==
    \A c \in Campaigns :
        campaigns[c].status = "scheduled"
            => CopiesIn(c, campaign_queue)
                + Cardinality({u \in Units : /\ units[u].pc = "claim"
                                             /\ units[u].campaign_id = c}) <= 1

\* C37: when an execution ends, by a return or by a raise, every recipient
\* whose send the provider accepted in it has a committed row in status sent
NoLostSendState ==
    [][\A w \in Workers :
        LET wk == workers[w]
        IN (wk.pc \in Running /\ Steps(w) /\ workers'[w].pc \notin Running)
            => \A k \in DOMAIN wk.calls :
                wk.calls[k].outcome = "ok"
                    => HasRow(log', wk.msg.campaign_id, wk.calls[k].email, "sent")]_vars

====
